---- MODULE Spec2Model ----
(***************************************************************************)
(* SafeJni: a type-directed calling layer over JNI.                        *)
(*                                                                         *)
(* The module models                                                       *)
(*   - the compile-time signature deriver (CompileTimeString, Concatenate, *)
(*     CPPToJNIConversor<T>::JNIType, getJNISignature);                    *)
(*   - the JNI runtime as an accounting fake: every primitive the library  *)
(*     issues is appended to a call log, every local reference it creates  *)
(*     is entered in a reference table that counts its releases;           *)
(*   - Tools (attachJniEnv, conversions, member resolution, checkException,*)
(*     clearException), JNIParamDestructor, JNICaller;                     *)
(*   - the public operations CallStatic, Call, Get, Set, GetStatic,        *)
(*     JNIObject::NewObject, JNIObject::Call/Get/Set and the override      *)
(*     setters, each as one action that runs the whole function.           *)
(*   - the life of one JNIObject from its factory to its destructor        *)
(*     (LifeSpec), the conversions by value and on their own (ConvSpec),   *)
(*     two threads calling through one proxy (RaceSpec), and calls in a    *)
(*     runtime that fails while a failure is decoded (TeardownSpec).       *)
(***************************************************************************)
EXTENDS Integers, Sequences, FiniteSets, TLC

VARIABLES
    javaVM,            \* Tools::javaVM: 0 while unset, else the stored VM
    pending,           \* the runtime's pending-failure flag of the thread
    className_,        \* JNIObject::className_ of the proxy
    memberSignature_,  \* JNIObject::memberSignature_ of the proxy
    pc,                \* the embedder thread: "idle", "returned", "aborted"
    last,              \* what the last operation did (inputs, log, outcome)
    sigT,              \* signature deriver: return / field type
    sigArgs,           \* signature deriver: parameter types
    sigOut,            \* getJNISignature<sigT, sigArgs...>()
    sigAgain,          \* a second derivation for the same types
    sigField,          \* the field signature of sigT
    jniObject,         \* a JNIObject from its factory to its destructor
    conv,              \* a conversion applied on its own to a value
    thread             \* two threads calling methods of one proxy

\* what sigOut, sigAgain and sigField hold before the derivation has run
NotDerived == "not derived"

vars == <<javaVM, pending, className_, memberSignature_, pc, last,
          sigT, sigArgs, sigOut, sigAgain, sigField, jniObject,
          conv, thread>>

callVars == <<javaVM, pending, className_, memberSignature_, pc, last>>
sigVars == <<sigT, sigArgs, sigOut, sigAgain, sigField>>
lifeVars == <<jniObject>>
convVars == <<conv>>
threadVars == <<thread>>

(***************************************************************************)
(* Bounds                                                                  *)
(***************************************************************************)
MaxArgs == 1      \* longest argument list of a call
MaxLen == 1       \* elements of a non-empty string sequence / map argument
MaxSigArgs == 2   \* longest parameter list given to the signature deriver

(***************************************************************************)
(* Compile-time strings (safejni.h 22-59).                                 *)
(* A CompileTimeString<Cs...> is the sequence of its characters; NUL is    *)
(* the terminating character '\0' that the callers append.                 *)
(***************************************************************************)
NUL == "NUL"

CompileTimeString(cs) == cs

\* a Concatenate2 that puts the right string first
Concatenate2Swapped(L, R) == R \o L

Concatenate2(L, R) == L \o R

RECURSIVE Concatenate(_)
Concatenate(C) ==
    IF Len(C) = 1 THEN C[1]
    ELSE Concatenate2(C[1], Concatenate(Tail(C)))

\* CompileTimeString::value() read as a C string: the characters before the
\* first '\0'.
RECURSIVE value(_)
value(cs) ==
    IF cs = <<>> \/ Head(cs) = NUL THEN ""
    ELSE Head(cs) \o value(Tail(cs))

(***************************************************************************)
(* CPPToJNIConversor<T>::JNIType (safejni.h 227-352).                      *)
(***************************************************************************)
StringType ==
    <<"L","j","a","v","a","/","l","a","n","g","/","S","t","r","i","n","g",";">>

JNIType(T) ==
    CASE T = "string"     -> CompileTimeString(StringType)
      [] T = "cstr"       -> CompileTimeString(StringType)
      [] T = "vecstring"  -> CompileTimeString(<<"[">> \o StringType)
      [] T = "vecbyte"    -> CompileTimeString(<<"[","B">>)
      [] T = "proxy"      -> CompileTimeString(
            <<"L","j","a","v","a","/","l","a","n","g","/","O","b","j","e","c","t",";">>)
      [] T = "vecjobject" -> CompileTimeString(
            <<"[","L","j","a","v","a","/","l","a","n","g","/","O","b","j","e","c","t",";">>)
      [] T = "map"        -> CompileTimeString(
            <<"L","j","a","v","a","/","u","t","i","l","/","H","a","s","h","M","a","p",";">>)
      [] T = "void"       -> CompileTimeString(<<"V">>)
      [] T = "int32"      -> CompileTimeString(<<"I">>)
      [] T = "int64"      -> CompileTimeString(<<"J">>)
      [] T = "float"      -> CompileTimeString(<<"F">>)
      [] T = "double"     -> CompileTimeString(<<"D">>)
      [] T = "bool"       -> CompileTimeString(<<"Z">>)
      [] T = "int8"       -> CompileTimeString(<<"B">>)
      [] T = "uint8"      -> CompileTimeString(<<"C">>)
      [] T = "int16"      -> CompileTimeString(<<"S">>)

\* getJNISignature<T, Args...> (safejni.h 663-671)
getJNISignature(T, Args) ==
    value(Concatenate(<<CompileTimeString(<<"(">>)>>
                      \o [i \in 1..Len(Args) |-> JNIType(Args[i])]
                      \o <<CompileTimeString(<<")">>),
                           JNIType(T),
                           CompileTimeString(<<NUL>>)>>))

\* the field signature computed in Get / Set / GetStatic (safejni.h 840-842)
fieldSignature(T) ==
    value(Concatenate(<<JNIType(T), CompileTimeString(<<NUL>>)>>))

(***************************************************************************)
(* The JNI runtime as an accounting fake.                                  *)
(*                                                                         *)
(* An execution state st is the state of one operation while it runs:      *)
(*   pend  the thread's pending-failure flag (ExceptionCheck)              *)
(*   refs  the local references created so far; handle h > 0 created by    *)
(*         the operation is refs[h], with the number of DeleteLocalRef     *)
(*         calls made on it                                                *)
(*   log   the primitives issued, in order                                 *)
(*   exc   the JNIException in flight ("none" when there is none), named   *)
(*         by the throw statement that raised it                           *)
(*   dead  the process was aborted by the runtime (undefined behaviour)    *)
(*   v     the value returned by the last primitive or function            *)
(*   cls, tok, weak   the JNIMethodInfo returned by the last resolution    *)
(*   dtor  JNIParamDestructor::jniParams                                   *)
(*   sc    the scenario: how the runtime behaves during this operation     *)
(*   vm    Tools::javaVM                                                   *)
(*   ret   what the operation returns to its caller                        *)
(*   cn, ms   the proxy's className_ and memberSignature_                  *)
(***************************************************************************)
NullH == 0        \* the null handle / null member token
InstanceH == 100  \* the object handle held by the proxy (caller-owned)
ClassH == 101     \* a class handle supplied by the caller
ArgObjH == 102    \* the handle inside a proxy passed as an argument
Token == 1        \* a resolved jmethodID / jfieldID
PrimValue == 7    \* the value a primitive-returning member yields

OwnClass == "com/example/Own"      \* class of the proxy's object
FooClass == "com/example/Foo"      \* another class of the runtime
MissingClass == "com/example/None" \* a class the runtime does not have

Classes ==
    {OwnClass, FooClass, "java/lang/String", "java/lang/Throwable",
     "java/util/HashMap"}

NoSuchSignature == "(J)J"  \* a signature no method of the runtime has

\* the members of the runtime: method m and the constructors (overloaded for
\* every other non-empty signature), field f, and what the library looks up
MethodExists(c, name, sig) ==
    \/ c \in {OwnClass, FooClass} /\ name \in {"m", "<init>"}
          /\ sig \notin {"", NoSuchSignature}
    \/ c = "java/lang/Throwable" /\ name = "getMessage"
                                 /\ sig = "()Ljava/lang/String;"
    \/ c = "java/util/HashMap" /\ name = "<init>" /\ sig = "()V"
    \/ c = "java/util/HashMap" /\ name = "put"
          /\ sig = "(Ljava/lang/Object;Ljava/lang/Object;)Ljava/lang/Object;"

FieldExists(c, name, sig) ==
    c \in {OwnClass, FooClass} /\ name = "f" /\ sig # ""

Emit(st, fn, h, tok, name, sig) ==
    IF st.dead THEN st ELSE
    [st EXCEPT !.log = Append(@, [fn |-> fn, h |-> h, tok |-> tok,
                                  name |-> name, sig |-> sig])]

NewLocal(st, role, obj) ==
    IF st.dead THEN st ELSE
    [st EXCEPT !.refs = Append(@, [role |-> role, obj |-> obj, rel |-> 0]),
               !.v = Len(st.refs) + 1]

\* the class a class handle refers to
ObjOf(st, h) ==
    IF h = ClassH THEN OwnClass
    ELSE IF h \in 1..Len(st.refs) THEN st.refs[h].obj
    ELSE ""

\* a primitive was handed a null class, object or member token: undefined
\* behaviour, which either aborts the process or goes on with a null result
Undefined(st) ==
    IF st.sc.ubAbort THEN [st EXCEPT !.dead = TRUE, !.v = NullH]
    ELSE [st EXCEPT !.v = NullH]

\* a lookup that finds nothing returns null, with or without a pending failure
NotFound(st) ==
    [st EXCEPT !.v = NullH, !.pend = @ \/ st.sc.nullPend]

\* The runtime can fail while the library decodes a pending failure
\* (st.sc.decode): the lookup of java/lang/Throwable ("class"), the lookup
\* of getMessage ("getter"), the call of getMessage ("call") or
\* GetStringUTFChars ("string") fails, the first time it is issued.
DecodeFails(st, what) ==
    /\ st.sc.decode = what
    /\ \A i \in 1..Len(st.log) :
          CASE what = "class"  -> st.log[i].name # "java/lang/Throwable"
            [] what = "getter" -> st.log[i].name # "getMessage"
            [] what = "call"   -> st.log[i].name # "message"
            [] what = "string" -> st.log[i].fn # "GetStringUTFChars"

FindClass(st, name, role) ==
    LET s == Emit(st, "FindClass", NullH, NullH, name, "")
    IN  IF name \in Classes
           /\ ~(name = "java/lang/Throwable" /\ DecodeFails(st, "class"))
        THEN NewLocal(s, role, name) ELSE NotFound(s)

GetObjectClass(st, obj) ==
    LET s == Emit(st, "GetObjectClass", obj, NullH, "", "")
    IN  IF obj = NullH THEN Undefined(s) ELSE NewLocal(s, "class", OwnClass)

\* GetMethodID / GetStaticMethodID
GetMethodID(st, fn, cls, name, sig) ==
    LET s == Emit(st, fn, cls, NullH, name, sig)
    IN  IF cls = NullH THEN Undefined(s)
        ELSE IF MethodExists(ObjOf(st, cls), name, sig)
                /\ ~(name = "getMessage" /\ DecodeFails(st, "getter"))
             THEN [s EXCEPT !.v = Token]
             ELSE NotFound(s)

\* GetFieldID / GetStaticFieldID
GetFieldID(st, fn, cls, name, sig) ==
    LET s == Emit(st, fn, cls, NullH, name, sig)
    IN  IF cls = NullH THEN Undefined(s)
        ELSE IF FieldExists(ObjOf(st, cls), name, sig)
             THEN [s EXCEPT !.v = Token]
             ELSE NotFound(s)

DeleteLocalRef(st, h) ==
    LET s == Emit(st, "DeleteLocalRef", h, NullH, "", "")
    IN  IF h \in 1..Len(st.refs)
        THEN [s EXCEPT !.refs[h].rel = @ + 1]
        ELSE s

ExceptionOccurred(st) ==
    NewLocal(Emit(st, "ExceptionOccurred", NullH, NullH, "", ""),
             "throwable", "")

ExceptionDescribe(st) == Emit(st, "ExceptionDescribe", NullH, NullH, "", "")

ExceptionClear(st) ==
    [Emit(st, "ExceptionClear", NullH, NullH, "", "") EXCEPT !.pend = FALSE]

\* the return category of a native type: the primitive family used for it
Category(T) ==
    CASE T = "void"   -> "Void"
      [] T = "bool"   -> "Boolean"
      [] T = "int8"   -> "Byte"
      [] T = "uint8"  -> "Char"
      [] T = "int16"  -> "Short"
      [] T = "int32"  -> "Int"
      [] T = "int64"  -> "Long"
      [] T = "float"  -> "Float"
      [] T = "double" -> "Double"
      [] OTHER        -> "Object"

\* what a member of category cat yields when it completes normally
\* (role "null": an object member that yields the null reference)
Yield(st, cat, role) ==
    IF cat = "Object" /\ role # "null" THEN NewLocal(st, role, "")
    ELSE [st EXCEPT !.v = IF cat = "Void" THEN NullH ELSE PrimValue]

\* an invocation primitive: Call<cat>Method, CallStatic<cat>Method, NewObject.
\* The managed target raises a failure when the scenario says so.  The log
\* entry carries what the call is made for: "result" (the target of the
\* operation), "message" (getMessage), "arg" / "null" (inside a conversion).
Invoke(st, fn, h, tok, cat, raises, role) ==
    LET s == Emit(st, fn, h, tok, role, "")
    IN  IF h = NullH \/ tok = NullH THEN Undefined(s)
        ELSE IF raises THEN [s EXCEPT !.pend = TRUE, !.v = NullH]
        ELSE Yield(s, cat, role)

\* a field read primitive: Get<cat>Field, GetStatic<cat>Field
ReadField(st, fn, h, tok, cat) ==
    LET s == Emit(st, fn, h, tok, "", "")
    IN  IF h = NullH \/ tok = NullH THEN Undefined(s)
        ELSE Yield(s, cat, "result")

\* a field write primitive: Set<cat>Field
WriteField(st, fn, h, tok, val) ==
    LET s == Emit(st, fn, h, tok, "", "")
    IN  IF h = NullH \/ tok = NullH THEN Undefined(s)
        ELSE [s EXCEPT !.v = val]

\* NewStringUTF, NewObjectArray, NewByteArray: a new local reference, or null
\* with a pending failure when the runtime cannot allocate
Allocate(st, fn, role, fails) ==
    LET s == Emit(st, fn, NullH, NullH, "", "")
    IN  IF fails THEN [s EXCEPT !.pend = TRUE, !.v = NullH]
        ELSE NewLocal(s, role, "")

\* throw JNIException(...)
Throw(st, what) == [st EXCEPT !.exc = what]

\* control leaves the function early: an exception is in flight or the
\* process is gone
Halted(st) == st.dead \/ st.exc # "none"

(***************************************************************************)
(* Tools (unnamed/part_000)                                                *)
(***************************************************************************)
\* Tools::attachJniEnv.  With javaVM unset the function returns jniEnv
\* uninitialised; using it is undefined: the process aborts, or the stale
\* pointer happens to be a usable environment.
attachJniEnv(st) ==
    IF st.vm = 0 THEN
        IF st.sc.ubAbort THEN [st EXCEPT !.dead = TRUE] ELSE st
    ELSE LET s == Emit(st, "AttachCurrentThread", NullH, st.vm, "", "")
         IN  IF st.sc.attachErr THEN Throw(s, "attach") ELSE s

\* A destructor runs whether or not an exception is in flight, and the
\* exception stays in flight after it.  Destructors are noexcept: one that
\* throws ends the process (std::terminate).
AfterDestructor(before, after) ==
    IF after.exc # "none" THEN [after EXCEPT !.dead = TRUE, !.exc = before.exc]
    ELSE [after EXCEPT !.exc = before.exc]

NoExc(st) == [st EXCEPT !.exc = "none"]

\* The statements after s run unless control has left the function: an
\* exception is in flight or the process is gone.
Bind(s, Rest(_)) == IF Halted(s) THEN s ELSE Rest(s)

\* JNIMethodInfo::~JNIMethodInfo
DestroyMethodInfo(st, classId, weak_) ==
    IF st.dead \/ weak_ \/ classId = NullH THEN st
    ELSE AfterDestructor(st,
            Bind(attachJniEnv(NoExc(st)),
                 LAMBDA s : DeleteLocalRef(s, classId)))

RECURSIVE checkException(_)

\* Tools::toString; GetStringUTFChars that fails returns null with a
\* failure pending, and nothing is released
toString(st, str) ==
    IF str = NullH THEN st
    ELSE checkException(
            IF DecodeFails(st, "string")
            THEN [Emit(st, "GetStringUTFChars", str, NullH, "", "")
                     EXCEPT !.pend = TRUE]
            ELSE Emit(Emit(st, "GetStringUTFChars", str, NullH, "", ""),
                      "ReleaseStringUTFChars", str, NullH, "", ""))

\* Tools::getMethodInfo(env, className, methodName, signature).  A
\* checkException that returns leaves the state as it was, so the handle of
\* the class is still the value of the state it returns.
getMethodInfoByName(st, className, methodName, signature) ==
    Bind(checkException(FindClass(st, className, "class")), LAMBDA s2 :
        IF s2.v = NullH THEN Throw(s2, "classNotFound")
        ELSE Bind(checkException(s2), LAMBDA s3 :
             Bind(checkException(GetMethodID(s3, "GetMethodID", s2.v,
                                             methodName, signature)),
                  LAMBDA s5 :
                    IF s5.v = NullH THEN Throw(s5, "memberNotFound")
                    ELSE [s5 EXCEPT !.cls = s2.v, !.tok = s5.v,
                                    !.weak = FALSE])))

\* a getMethodInfo(env, classId, ...) that does not check the failure state
\* after the member lookup
getMethodInfoByClassUnchecked(st, classId, methodName, signature) ==
    Bind(checkException(st), LAMBDA s1 :
    Bind(GetMethodID(s1, "GetMethodID", classId, methodName, signature),
         LAMBDA s2 :
            IF s2.v = NullH THEN Throw(s2, "memberNotFound")
            ELSE [s2 EXCEPT !.cls = classId, !.tok = s2.v, !.weak = TRUE]))

\* Tools::getMethodInfo(env, classId, methodName, signature)
getMethodInfoByClass(st, classId, methodName, signature) ==
    Bind(checkException(st), LAMBDA s1 :
    Bind(checkException(GetMethodID(s1, "GetMethodID", classId, methodName,
                                    signature)),
         LAMBDA s3 :
            IF s3.v = NullH THEN Throw(s3, "memberNotFound")
            ELSE [s3 EXCEPT !.cls = classId, !.tok = s3.v, !.weak = TRUE]))

\* a getStaticMethodInfo that does not check the failure state after the
\* class lookup
getStaticMethodInfoUnchecked(st, className, methodName, signature) ==
    Bind(FindClass(st, className, "class"), LAMBDA s1 :
        IF s1.v = NullH THEN Throw(s1, "classNotFound")
        ELSE Bind(checkException(GetMethodID(s1, "GetStaticMethodID", s1.v,
                                             methodName, signature)),
                  LAMBDA s4 :
                    IF s4.v = NullH THEN Throw(s4, "memberNotFound")
                    ELSE [s4 EXCEPT !.cls = s1.v, !.tok = s4.v,
                                    !.weak = FALSE]))

\* Tools::getStaticMethodInfo
getStaticMethodInfo(st, className, methodName, signature) ==
    Bind(checkException(FindClass(st, className, "class")), LAMBDA s2 :
        IF s2.v = NullH THEN Throw(s2, "classNotFound")
        ELSE Bind(checkException(GetMethodID(s2, "GetStaticMethodID", s2.v,
                                             methodName, signature)),
                  LAMBDA s4 :
                    IF s4.v = NullH THEN Throw(s4, "memberNotFound")
                    ELSE [s4 EXCEPT !.cls = s2.v, !.tok = s4.v,
                                    !.weak = FALSE]))

\* the part checkException and clearException share: take the pending
\* failure, clear it, and decode its message through Throwable.getMessage;
\* the local methodInfo is destroyed when the scope is left
DecodePending(st) ==
    Bind(ExceptionClear(ExceptionDescribe(ExceptionOccurred(st))),
         LAMBDA s1 :
    Bind(getMethodInfoByName(s1, "java/lang/Throwable", "getMessage",
                             "()Ljava/lang/String;"),
         LAMBDA s2 :
            DestroyMethodInfo(
                Bind(Invoke(s2, "CallObjectMethod", s1.v, s2.tok, "Object",
                            DecodeFails(s2, "call"), "message"),
                     LAMBDA s3 : toString(s3, s3.v)),
                s2.cls, s2.weak)))

\* Tools::checkException
checkException(st) ==
    IF st.dead \/ ~st.pend THEN st
    ELSE Bind(DecodePending(st), LAMBDA s : Throw(s, "runtime"))

\* Tools::clearException
clearException(st) ==
    IF st.dead \/ ~st.pend THEN st
    ELSE Bind(DecodePending(st),
              LAMBDA s : Emit(s, "LOGE", NullH, NullH, "", ""))

(***************************************************************************)
(* Outbound conversions.  An argument is [t |-> its native type, n |-> the *)
(* number of its elements]; fails says that the runtime raises a failure   *)
(* while this argument is converted.                                       *)
(***************************************************************************)
RetLen == 1  \* elements of a string sequence returned by the managed side

\* the loop of Tools::toJObjectArray(vector<string>)
RECURSIVE SetElements(_, _, _, _, _)
SetElements(st, joa, i, size, fails) ==
    IF i > size THEN st
    ELSE SetElements(
            Emit(Allocate(st, "NewStringUTF", "elem", fails /\ i = 1),
                 "SetObjectArrayElement", joa, NullH, "", ""),
            joa, i + 1, size, fails)

\* Tools::toJObjectArray(env, const vector<string>&)
toJObjectArrayStrings(st, size, fails) ==
    Bind(FindClass(st, "java/lang/String", "convclass"), LAMBDA s1 :
    Bind(Allocate(s1, "NewObjectArray", "arg", fails /\ size = 0),
         LAMBDA s2 :
    Bind(checkException(
            DeleteLocalRef(SetElements(s2, s2.v, 1, size, fails), s1.v)),
         LAMBDA s5 : [s5 EXCEPT !.v = s2.v])))

\* Tools::toJObjectArray(env, const vector<uint8_t>&)
toJObjectArrayBytes(st, fails) ==
    Bind(Allocate(st, "NewByteArray", "arg", fails), LAMBDA s1 :
    Bind(checkException(
            IF s1.v = NullH
            THEN Undefined(Emit(s1, "SetByteArrayRegion", s1.v, NullH,
                                "", ""))
            ELSE Emit(s1, "SetByteArrayRegion", s1.v, NullH, "", "")),
         LAMBDA s4 : [s4 EXCEPT !.v = s1.v]))

\* the loop of Tools::toHashMap
RECURSIVE PutEntries(_, _, _, _, _, _)
PutEntries(st, hashmap, methodId, i, size, fails) ==
    IF i > size THEN st
    ELSE Bind(Allocate(st, "NewStringUTF", "elem", FALSE), LAMBDA key :
         Bind(Allocate(key, "NewStringUTF", "elem", FALSE), LAMBDA val :
         Bind(Invoke(val, "CallObjectMethod", hashmap, methodId, "Object",
                     fails /\ i = 1, "null"),
              LAMBDA s3 :
                PutEntries(DeleteLocalRef(DeleteLocalRef(s3, key.v), val.v),
                           hashmap, methodId, i + 1, size, fails))))

\* Tools::toHashMap
toHashMap(st, size, fails) ==
    Bind(FindClass(st, "java/util/HashMap", "convclass"), LAMBDA s1 :
    Bind(GetMethodID(s1, "GetMethodID", s1.v, "<init>", "()V"), LAMBDA s2 :
    Bind(Invoke(s2, "NewObject", s1.v, s2.v, "Object", fails /\ size = 0,
                "arg"),
         LAMBDA s3 :
    Bind(GetMethodID(s3, "GetMethodID", s1.v, "put",
            "(Ljava/lang/Object;Ljava/lang/Object;)Ljava/lang/Object;"),
         LAMBDA s4 :
    Bind(PutEntries(s4, s3.v, s4.v, 1, size, fails), LAMBDA s5 :
    Bind(checkException(DeleteLocalRef(s5, s1.v)),
         LAMBDA s7 : [s7 EXCEPT !.v = s3.v]))))))

\* CPPToJNIConversor<T>::convert
convert(st, arg, fails) ==
    CASE arg.t \in {"string", "cstr"} ->
            Allocate(st, "NewStringUTF", "arg", fails)
      [] arg.t = "vecstring" -> toJObjectArrayStrings(st, arg.n, fails)
      [] arg.t = "vecbyte"   -> toJObjectArrayBytes(st, fails)
      [] arg.t = "map"       -> toHashMap(st, arg.n, fails)
      [] arg.t = "proxy"     -> [st EXCEPT !.v = ArgObjH]
      [] OTHER               -> [st EXCEPT !.v = PrimValue]

\* JNIParamsCheck<T>::needDeleteLocal
needDeleteLocal(T) == T # "proxy"

\* JNIDestructorDecider is specialised for the handle types the conversions
\* return (jobject, jbyteArray, jobjectArray, jstring)
ConvertsToHandle(T) ==
    T \in {"string", "cstr", "vecstring", "vecbyte", "map", "proxy"}

\* JNIParamConversor: convert, then JNIParamDestructor::add
JNIParamConversor(st, arg, fails) ==
    Bind(convert(st, arg, fails), LAMBDA s :
        IF needDeleteLocal(arg.t) /\ ConvertsToHandle(arg.t)
        THEN [s EXCEPT !.dtor = Append(@, s.v)]
        ELSE s)

\* the order in which the arguments of the call expression are evaluated is
\* unspecified: left to right or right to left
EvalOrder(n, order) ==
    IF order = "ltr" THEN [i \in 1..n |-> i] ELSE [i \in 1..n |-> n + 1 - i]

\* the pack expansion JNIParamConversor<Args>(jniEnv, v, paramDestructor)...
RECURSIVE ConvertArgs(_, _, _)
ConvertArgs(st, args, idxs) ==
    IF idxs = <<>> \/ Halted(st) THEN st
    ELSE ConvertArgs(JNIParamConversor(st, args[Head(idxs)],
                                       st.sc.convRaise = Head(idxs)),
                     args, Tail(idxs))

RECURSIVE DeleteParams(_, _)
DeleteParams(st, jniParams) ==
    IF jniParams = <<>> THEN st
    ELSE DeleteParams(IF Head(jniParams) # NullH
                      THEN DeleteLocalRef(st, Head(jniParams)) ELSE st,
                      Tail(jniParams))

\* JNIParamDestructor<NUM_PARAMS>::~JNIParamDestructor
DestroyParams(st, NUM_PARAMS) ==
    IF st.dead THEN st
    ELSE AfterDestructor(st,
            clearException(IF NUM_PARAMS > 0
                           THEN DeleteParams(NoExc(st), st.dtor)
                           ELSE NoExc(st)))

(***************************************************************************)
(* Inbound conversions                                                     *)
(***************************************************************************)
\* the loop of Tools::toVectorString
RECURSIVE ReadElements(_, _, _, _)
ReadElements(st, array, i, length) ==
    IF i > length \/ Halted(st) THEN st
    ELSE Bind(NewLocal(Emit(st, "GetObjectArrayElement", array, NullH,
                            "", ""), "element", ""),
              LAMBDA valueJObject :
         Bind(toString(valueJObject, valueJObject.v), LAMBDA s2 :
            ReadElements(DeleteLocalRef(s2, valueJObject.v), array, i + 1,
                         length)))

\* Tools::toVectorString
toVectorString(st, array) ==
    Bind(IF array # NullH
         THEN ReadElements(Emit(st, "GetArrayLength", array, NullH, "", ""),
                           array, 1, RetLen)
         ELSE st,
         LAMBDA s1 : checkException(s1))

\* Tools::toVectorByte
toVectorByte(st, array) ==
    IF array = NullH THEN st
    ELSE checkException(
            Emit(Emit(st, "GetArrayLength", array, NullH, "", ""),
                 "GetByteArrayRegion", array, NullH, "", ""))

\* Tools::toVectorFloat
toVectorFloat(st, array) ==
    IF array = NullH THEN st
    ELSE checkException(
            Emit(Emit(st, "GetArrayLength", array, NullH, "", ""),
                 "GetFloatArrayRegion", array, NullH, "", ""))

\* the loop of Tools::toVectorJObject: the elements are handed to the caller
RECURSIVE ReadObjects(_, _, _, _)
ReadObjects(st, array, i, length) ==
    IF i > length THEN st
    ELSE ReadObjects(NewLocal(Emit(st, "GetObjectArrayElement", array,
                                   NullH, "", ""), "element", ""),
                     array, i + 1, length)

\* Tools::toVectorJObject
toVectorJObject(st, array) ==
    IF array # NullH
    THEN ReadObjects(Emit(st, "GetArrayLength", array, NullH, "", ""),
                     array, 1, RetLen)
    ELSE st

\* JNIToCPPConversor<T>::convert
JNIToCPPConversor(st, T, obj) ==
    CASE T = "string"    -> toString(st, obj)
      [] T = "vecstring" -> toVectorString(st, obj)
      [] T = "vecbyte"   -> toVectorByte(st, obj)

(***************************************************************************)
(* JNICaller<T, Args...>                                                   *)
(***************************************************************************)
NoRet == [kind |-> "none", h |-> NullH, globalRef |-> FALSE, weak |-> FALSE]
ValueRet ==
    [kind |-> "value", h |-> NullH, globalRef |-> FALSE, weak |-> FALSE]

\* JNIObject::CreateShared
CreateShared(obj) ==
    [kind |-> "proxy", h |-> obj, globalRef |-> FALSE, weak |-> FALSE]

\* what every JNICaller function does with the value st.v the primitive
\* gave: wrap it (JNIObjectPtr), convert and release it (default template),
\* or return it (void and the primitive types)
Deliver(st, T) ==
    IF st.dead THEN st
    ELSE IF T = "proxy" THEN [st EXCEPT !.ret = CreateShared(st.v)]
    ELSE IF Category(T) # "Object" THEN [st EXCEPT !.ret = ValueRet]
    ELSE Bind(JNIToCPPConversor(st, T, st.v), LAMBDA s1 :
            [(IF st.v # NullH THEN DeleteLocalRef(s1, st.v) ELSE s1)
                EXCEPT !.ret = ValueRet])

\* JNICaller::callStatic (kind "Static") and JNICaller::callInstance (kind "")
callMethod(st, T, kind, target, method) ==
    Deliver(Invoke(st, "Call" \o kind \o Category(T) \o "Method", target,
                   method, Category(T), st.sc.raises, "result"), T)

\* JNICaller::getField (kind "") and JNICaller::getStaticField (kind "Static")
getField(st, T, kind, target, fid) ==
    Deliver(ReadField(st, "Get" \o kind \o Category(T) \o "Field", target,
                      fid, Category(T)), T)

\* JNICaller::setField: the default template converts the value and stores
\* the handle; JNIObjectPtr stores the wrapped handle; bool stores the value
setField(st, T, object, fid, val) ==
    IF T = "proxy" THEN WriteField(st, "SetObjectField", object, fid, ArgObjH)
    ELSE IF T = "bool"
         THEN WriteField(st, "SetBooleanField", object, fid, PrimValue)
    ELSE Bind(convert(st, val, st.sc.convRaise = 1), LAMBDA java_value :
            WriteField(java_value, "SetObjectField", object, fid,
                       java_value.v))

(***************************************************************************)
(* Public API (safejni.h 757-988)                                          *)
(***************************************************************************)
Types(args) == [i \in 1..Len(args) |-> args[i].t]

\* the signature an operation uses for a method: the supplied one, or the
\* derived one when it is empty
MethodSig(signature, T, args) ==
    IF signature = "" THEN getJNISignature(T, Types(args)) ELSE signature

\* the same for a field
FieldSig(signature, T) ==
    IF signature = "" THEN fieldSignature(T) ELSE signature

\* what CallStatic, Call and NewObject do once the member is resolved
\* (methodInfo): convert the arguments, issue the call, then the destructors
\* of paramDestructor and of methodInfo run
Invocation(methodInfo, args, order, Issue(_)) ==
    DestroyMethodInfo(
        DestroyParams(
            Bind(ConvertArgs([methodInfo EXCEPT !.dtor = <<>>], args,
                             EvalOrder(Len(args), order)),
                 Issue),
            Len(args)),
        methodInfo.cls, methodInfo.weak)

\* CallStatic<T, Args...>(className, methodName, signature, v...).  sig is
\* computed as MethodSig(signature, T, args), but the lookup is handed
\* signature.c_str() (lines 773-774).
CallStatic(st, className, methodName, signature, T, args) ==
    Bind(attachJniEnv(st), LAMBDA s0 :
    Bind(getStaticMethodInfo(s0, className, methodName, signature),
         LAMBDA methodInfo :
            Invocation(methodInfo, args, st.sc.order,
                LAMBDA s2 : callMethod(s2, T, "Static", methodInfo.cls,
                                       methodInfo.tok))))

\* Call<T, Args...>(instance, classId, methodName, signature, v...)
Call(st, instance, classId, methodName, signature, T, args) ==
    Bind(attachJniEnv(st), LAMBDA s0 :
    Bind(getMethodInfoByClass(s0, classId, methodName,
                              MethodSig(signature, T, args)),
         LAMBDA methodInfo :
            Invocation(methodInfo, args, st.sc.order,
                LAMBDA s2 : callMethod(s2, T, "", instance,
                                       methodInfo.tok))))

\* Get<T>(instance, propertyName, signature)
Get(st, instance, propertyName, signature, T) ==
    Bind(attachJniEnv(st), LAMBDA s0 :
    Bind(GetObjectClass(s0, instance), LAMBDA clazz :
    Bind(GetFieldID(clazz, "GetFieldID", clazz.v, propertyName,
                    FieldSig(signature, T)),
         LAMBDA fid :
            getField(IF clazz.v # NullH THEN DeleteLocalRef(fid, clazz.v)
                     ELSE fid,
                     T, "", instance, fid.v))))

\* Set<T>(instance, propertyName, signature, value)
Set(st, instance, propertyName, signature, T, val) ==
    Bind(attachJniEnv(st), LAMBDA s0 :
    Bind(GetObjectClass(s0, instance), LAMBDA clazz :
    Bind(GetFieldID(clazz, "GetFieldID", clazz.v, propertyName,
                    FieldSig(signature, T)),
         LAMBDA fid :
            setField(IF clazz.v # NullH THEN DeleteLocalRef(fid, clazz.v)
                     ELSE fid,
                     T, instance, fid.v, val))))

\* GetStatic<T>(className, propertyName, signature)
GetStatic(st, className, propertyName, signature, T) ==
    Bind(attachJniEnv(st), LAMBDA s0 :
    Bind(FindClass(s0, className, "class"), LAMBDA clazz :
    Bind(GetFieldID(clazz, "GetStaticFieldID", clazz.v, propertyName,
                    FieldSig(signature, T)),
         LAMBDA fid :
    Bind(getField(fid, T, "Static", clazz.v, fid.v), LAMBDA s3 :
        IF clazz.v # NullH THEN DeleteLocalRef(s3, clazz.v) ELSE s3))))

(***************************************************************************)
(* JNIObject (safejni.h 914-988, unnamed/part_000 301-347)                 *)
(***************************************************************************)
\* NewGlobalRef / NewLocalRef: a new reference to the object, or null for the
\* null handle
NewRef(st, fn, role, h) ==
    LET s == Emit(st, fn, h, NullH, "", "")
    IN  IF h = NullH THEN [s EXCEPT !.v = NullH] ELSE NewLocal(s, role, "")

DeleteGlobalRef(st, h) ==
    LET s == Emit(st, "DeleteGlobalRef", h, NullH, "", "")
    IN  IF h \in 1..Len(st.refs)
        THEN [s EXCEPT !.refs[h].rel = @ + 1]
        ELSE s

\* JNIObject::makeGlobalRef on the proxy
makeGlobalRef(st, proxy) ==
    IF proxy.globalRef THEN [st EXCEPT !.ret = proxy]
    ELSE Bind(attachJniEnv(st), LAMBDA s1 :
         Bind(NewRef(s1, "NewGlobalRef", "global", proxy.h), LAMBDA s2 :
            [s2 EXCEPT !.ret = [proxy EXCEPT !.h = s2.v,
                                             !.globalRef = TRUE]]))

\* JNIObject::CreateWeak
CreateWeak(obj) == [CreateShared(obj) EXCEPT !.weak = TRUE]

\* JNIObject::CreateLocal
CreateLocal(st, obj) ==
    Bind(attachJniEnv(st), LAMBDA s0 :
    Bind(NewRef(s0, "NewLocalRef", "local", obj), LAMBDA s1 :
        [s1 EXCEPT !.ret = CreateShared(s1.v)]))

\* JNIObject::CreateGlobal: instance = NewGlobalRef(obj), then makeGlobalRef()
\* on the new object, whose globalRef is still false
CreateGlobal(st, obj) ==
    Bind(attachJniEnv(st), LAMBDA s0 :
    Bind(NewRef(s0, "NewGlobalRef", "global", obj), LAMBDA s1 :
        makeGlobalRef(s1, CreateShared(s1.v))))

\* a ~JNIObject that releases every handle with DeleteLocalRef
DestroyJNIObjectLocalOnly(st, proxy) ==
    IF proxy.weak \/ proxy.h = NullH THEN st
    ELSE AfterDestructor(st,
            Bind(attachJniEnv(NoExc(st)),
                 LAMBDA s : DeleteLocalRef(s, proxy.h)))

\* JNIObject::~JNIObject
DestroyJNIObject(st, proxy) ==
    IF proxy.weak \/ proxy.h = NullH THEN st
    ELSE AfterDestructor(st,
            Bind(attachJniEnv(NoExc(st)),
                 LAMBDA s : IF proxy.globalRef
                            THEN DeleteGlobalRef(s, proxy.h)
                            ELSE DeleteLocalRef(s, proxy.h)))

\* the common part of both JNIObject::NewObject overloads, after resolution
Construct(st, resolved, args) ==
    Bind(resolved, LAMBDA methodInfo :
        Invocation(methodInfo, args, st.sc.order,
            LAMBDA s2 :
                Bind(Invoke(s2, "NewObject", methodInfo.cls, methodInfo.tok,
                            "Object", st.sc.raises, "result"),
                     LAMBDA s3 : makeGlobalRef(s3, CreateShared(s3.v)))))

\* JNIObject::NewObject(className, signature, v...)
NewObjectByName(st, className, signature, args) ==
    Bind(attachJniEnv(st), LAMBDA s0 :
        Construct(st,
                  getMethodInfoByName(s0, className, "<init>",
                                      MethodSig(signature, "void", args)),
                  args))

\* JNIObject::NewObject(classId, signature, v...)
NewObjectByClass(st, classId, signature, args) ==
    Bind(attachJniEnv(st), LAMBDA s0 :
        Construct(st,
                  getMethodInfoByClass(s0, classId, "<init>",
                                       MethodSig(signature, "void", args)),
                  args))

\* NameAndSignatureClear::~NameAndSignatureClear
ClearNameAndSignature(st) ==
    IF st.dead THEN st ELSE [st EXCEPT !.cn = "", !.ms = ""]

\* JNIObject::Call<T, Args...>(methodName, v...): the NameAndSignatureClear
\* guard is constructed after attachJniEnv has returned
ObjectCall(st, methodName, T, args) ==
    Bind(attachJniEnv(st), LAMBDA s0 :
        ClearNameAndSignature(
            Bind(IF st.cn = "" THEN GetObjectClass(s0, InstanceH)
                 ELSE FindClass(s0, st.cn, "class"),
                 LAMBDA classId :
                    Call(classId, InstanceH, classId.v, methodName, st.ms,
                         T, args))))

\* JNIObject::Get<T>(propertyName)
ObjectGet(st, propertyName, T) ==
    ClearNameAndSignature(Get(st, InstanceH, propertyName, st.ms, T))

\* JNIObject::Set<T>(propertyName, value)
ObjectSet(st, propertyName, T, val) ==
    ClearNameAndSignature(Set(st, InstanceH, propertyName, st.ms, T, val))

(***************************************************************************)
(* Inputs of the operations                                                *)
(***************************************************************************)
RetTypes ==
    {"void", "bool", "int8", "uint8", "int16", "int32", "int64", "float",
     "double", "string", "vecbyte", "vecstring", "proxy"}

FieldTypes == RetTypes \ {"void"}

\* the types JNICaller<T>::setField exists for
SetTypes == {"bool", "string", "vecbyte", "vecstring", "map", "proxy"}

ArgVals ==
    {[t |-> T, n |-> 0] : T \in {"int32", "string", "vecbyte", "proxy"}}
    \cup {[t |-> T, n |-> k] : T \in {"vecstring", "map"}, k \in {0, MaxLen}}

ArgLists == UNION {[1..k -> ArgVals] : k \in 0..MaxArgs}

\* Before Tools::init the first step of every operation is already undefined,
\* whatever its arguments: the argument lists are varied once javaVM is set.
Arguments == IF javaVM = 0 THEN {<<>>} ELSE ArgLists

ClassNames == {OwnClass, MissingClass}
MethodNames == {"m", "nosuch"}
FieldNames == {"f", "nosuch"}
MethodSignatures == {"", "(I)V"}
ConstructorSignatures == {"", "(I)V", NoSuchSignature}
FieldSignatures == {"", "I"}

\* a conversion that hands a null handle to a primitive when it fails
HasBytes(args) == \E i \in 1..Len(args) : args[i].t = "vecbyte"

\* How the runtime behaves during one operation.  At most one failure is
\* injected: the attach reports an error, the managed target raises, or the
\* runtime raises while argument convRaise is converted.  nullPend: a lookup
\* that finds nothing also sets a pending failure.  ubAbort: undefined
\* behaviour aborts the process (drawn where the operation can
\* run into it).  order: evaluation order of the arguments.
Faults(nargs) ==
    {[attachErr |-> a, raises |-> r, convRaise |-> c] :
        a \in BOOLEAN, r \in BOOLEAN, c \in 0..nargs}

OneFault(f) ==
    (IF f.attachErr THEN 1 ELSE 0) + (IF f.raises THEN 1 ELSE 0)
        + (IF f.convRaise > 0 THEN 1 ELSE 0) <= 1

Scenarios(nargs, withRaise, canAbort) ==
    {[attachErr |-> f.attachErr, raises |-> f.raises,
      convRaise |-> f.convRaise, nullPend |-> np, ubAbort |-> ub,
      order |-> o, decode |-> "none"] :
        f \in {g \in Faults(nargs) : OneFault(g) /\ (g.raises => withRaise)},
        np \in BOOLEAN,
        ub \in IF canAbort \/ javaVM = 0 THEN BOOLEAN ELSE {FALSE},
        o \in IF nargs >= 2 THEN {"ltr", "rtl"} ELSE {"ltr"}}

NoInput == [cls |-> "", name |-> "", sig |-> "", T |-> "void", args |-> <<>>]

NoOp == [op |-> "none", in |-> NoInput, outcome |-> "none", exc |-> "none",
         log |-> <<>>, refs |-> <<>>, ret |-> NoRet, startPend |-> FALSE,
         cn0 |-> "", ms0 |-> ""]

\* the runtime raises nothing on its own account
Quiet == [attachErr |-> FALSE, raises |-> FALSE, convRaise |-> 0,
          nullPend |-> FALSE, ubAbort |-> FALSE, order |-> "ltr",
          decode |-> "none"]

\* the execution state an operation starts in
Start(sc) ==
    [pend |-> pending, refs |-> <<>>, log |-> <<>>, exc |-> "none",
     dead |-> FALSE, v |-> NullH, cls |-> NullH, tok |-> NullH,
     weak |-> FALSE, dtor |-> <<>>, sc |-> sc, vm |-> javaVM, ret |-> NoRet,
     cn |-> className_, ms |-> memberSignature_]

\* the operation is over: control is back at the caller (by return or by a
\* JNIException), or the process was aborted
Finish(op, in, s) ==
    /\ last' = [op |-> op, in |-> in,
                outcome |-> IF s.dead THEN "aborted"
                            ELSE IF s.exc # "none" THEN "threw"
                            ELSE "returned",
                exc |-> s.exc, log |-> s.log, refs |-> s.refs,
                ret |-> IF Halted(s) THEN NoRet ELSE s.ret,
                sc |-> s.sc, startPend |-> pending,
                cn0 |-> className_, ms0 |-> memberSignature_]
    /\ pending' = s.pend
    /\ className_' = s.cn
    /\ memberSignature_' = s.ms
    /\ pc' = IF s.dead THEN "aborted" ELSE "returned"
    /\ UNCHANGED <<javaVM, sigVars, lifeVars, convVars, threadVars>>

\* no conversion has been applied
NoConv == [stage |-> "none", T |-> "", x |-> <<>>, j |-> <<>>, y |-> <<>>,
           dead |-> FALSE, fn |-> "", null |-> FALSE, pend |-> FALSE,
           outcome |-> "none", log |-> <<>>]

\* no thread has started
NoThreads == <<>>

\* no JNIObject has been created
NoObject == [phase |-> "none", proxy |-> NoRet, refs |-> <<>>, log |-> <<>>,
             made |-> 0,        \* makeGlobalRef calls made by the owner
             count |-> 0,       \* global references makeGlobalRef created
             factory |-> "", obj |-> NullH,
             attachErr |-> FALSE]

(***************************************************************************)
(* Actions                                                                 *)
(***************************************************************************)
VMs == {1}

\* safejni::init / Tools::init
init ==
    /\ pc = "idle"
    /\ \E vm \in VMs : javaVM' = vm
    /\ UNCHANGED <<pending, className_, memberSignature_, pc, last, sigVars, lifeVars, convVars, threadVars>>

\* JNIObject::SetClassName
SetClassName ==
    /\ pc = "idle"
    /\ \E className \in {FooClass} : className_' = className
    /\ UNCHANGED <<javaVM, pending, memberSignature_, pc, last, sigVars, lifeVars, convVars, threadVars>>

\* JNIObject::SetMemberSignature
SetMemberSignature ==
    /\ pc = "idle"
    /\ \E callSignature \in {"(I)V"} : memberSignature_' = callSignature
    /\ UNCHANGED <<javaVM, pending, className_, pc, last, sigVars, lifeVars, convVars, threadVars>>

DoCallStatic ==
    /\ pc = "idle"
    /\ \E className \in ClassNames, methodName \in MethodNames,
          signature \in MethodSignatures, T \in RetTypes, args \in Arguments :
        \E sc \in Scenarios(Len(args), TRUE, HasBytes(args)) :
            Finish("CallStatic",
                   [cls |-> className, name |-> methodName, sig |-> signature,
                    T |-> T, args |-> args],
                   CallStatic(Start(sc), className, methodName, signature, T,
                              args))

DoCall ==
    /\ pc = "idle"
    /\ \E methodName \in MethodNames, signature \in MethodSignatures,
          T \in RetTypes, args \in Arguments :
        \E sc \in Scenarios(Len(args), TRUE, HasBytes(args)) :
            Finish("Call",
                   [cls |-> OwnClass, name |-> methodName, sig |-> signature,
                    T |-> T, args |-> args],
                   Call(Start(sc), InstanceH, ClassH, methodName, signature, T,
                        args))

DoGet ==
    /\ pc = "idle"
    /\ \E propertyName \in FieldNames, signature \in FieldSignatures,
          T \in FieldTypes :
        \E sc \in Scenarios(0, FALSE, TRUE) :
            Finish("Get",
                   [cls |-> OwnClass, name |-> propertyName, sig |-> signature,
                    T |-> T, args |-> <<>>],
                   Get(Start(sc), InstanceH, propertyName, signature, T))

DoSet ==
    /\ pc = "idle"
    /\ \E propertyName \in FieldNames, signature \in FieldSignatures,
          val \in {a \in ArgVals : a.t \in SetTypes} \cup {[t |-> "bool", n |-> 0]} :
        \E sc \in Scenarios(1, FALSE, TRUE) :
            Finish("Set",
                   [cls |-> OwnClass, name |-> propertyName, sig |-> signature,
                    T |-> val.t, args |-> <<val>>],
                   Set(Start(sc), InstanceH, propertyName, signature, val.t,
                       val))

DoGetStatic ==
    /\ pc = "idle"
    /\ \E className \in ClassNames, propertyName \in FieldNames,
          signature \in FieldSignatures, T \in FieldTypes :
        \E sc \in Scenarios(0, FALSE, TRUE) :
            Finish("GetStatic",
                   [cls |-> className, name |-> propertyName,
                    sig |-> signature, T |-> T, args |-> <<>>],
                   GetStatic(Start(sc), className, propertyName, signature, T))

DoNewObjectByName ==
    /\ pc = "idle"
    /\ \E className \in ClassNames, signature \in ConstructorSignatures,
          args \in Arguments :
        \E sc \in Scenarios(Len(args), TRUE, HasBytes(args)) :
            Finish("NewObject",
                   [cls |-> className, name |-> "<init>", sig |-> signature,
                    T |-> "void", args |-> args],
                   NewObjectByName(Start(sc), className, signature, args))

DoNewObjectByClass ==
    /\ pc = "idle"
    /\ \E signature \in ConstructorSignatures, args \in Arguments :
        \E sc \in Scenarios(Len(args), TRUE, HasBytes(args)) :
            Finish("NewObjectByClass",
                   [cls |-> OwnClass, name |-> "<init>", sig |-> signature,
                    T |-> "void", args |-> args],
                   NewObjectByClass(Start(sc), ClassH, signature, args))

DoObjectCall ==
    /\ pc = "idle"
    /\ \E methodName \in MethodNames, T \in RetTypes, args \in Arguments :
        \E sc \in Scenarios(Len(args), TRUE, TRUE) :
            Finish("ObjectCall",
                   [cls |-> className_, name |-> methodName,
                    sig |-> memberSignature_, T |-> T, args |-> args],
                   ObjectCall(Start(sc), methodName, T, args))

DoObjectGet ==
    /\ pc = "idle"
    /\ \E propertyName \in FieldNames, T \in FieldTypes :
        \E sc \in Scenarios(0, FALSE, TRUE) :
            Finish("ObjectGet",
                   [cls |-> className_, name |-> propertyName,
                    sig |-> memberSignature_, T |-> T, args |-> <<>>],
                   ObjectGet(Start(sc), propertyName, T))

DoObjectSet ==
    /\ pc = "idle"
    /\ \E propertyName \in FieldNames,
          val \in {a \in ArgVals : a.t \in SetTypes} \cup {[t |-> "bool", n |-> 0]} :
        \E sc \in Scenarios(1, FALSE, TRUE) :
            Finish("ObjectSet",
                   [cls |-> className_, name |-> propertyName,
                    sig |-> memberSignature_, T |-> val.t, args |-> <<val>>],
                   ObjectSet(Start(sc), propertyName, val.t, val))

\* the embedder goes on after the operation; the accounting of the finished
\* operation is dropped
Resume ==
    /\ pc = "returned"
    /\ pc' = "idle"
    /\ last' = NoOp
    /\ UNCHANGED <<javaVM, pending, className_, memberSignature_, sigVars, lifeVars, convVars, threadVars>>

Init ==
    /\ javaVM = 0
    /\ pending = FALSE
    /\ className_ = ""
    /\ memberSignature_ = ""
    /\ pc = "idle"
    /\ last = NoOp
    /\ sigT = "void"
    /\ sigArgs = <<>>
    /\ sigOut = NotDerived
    /\ sigAgain = NotDerived
    /\ sigField = NotDerived
    /\ jniObject = NoObject
    /\ conv = NoConv
    /\ thread = NoThreads

Next ==
    \/ init
    \/ SetClassName
    \/ SetMemberSignature
    \/ DoCallStatic
    \/ DoCall
    \/ DoGet
    \/ DoSet
    \/ DoGetStatic
    \/ DoNewObjectByName
    \/ DoNewObjectByClass
    \/ DoObjectCall
    \/ DoObjectGet
    \/ DoObjectSet
    \/ Resume

Spec == Init /\ [][Next]_vars

(***************************************************************************)
(* The signature deriver on its own: the types are drawn at the start, the *)
(* actions derive the signatures.                                          *)
(***************************************************************************)
\* the types of the supported set
SigReturnTypes ==
    {"string", "int32", "int64", "float", "double", "bool", "int8", "int16",
     "void", "vecstring", "vecbyte", "map", "proxy"}

SigParamTypes == SigReturnTypes \ {"void"}

SigParamLists == UNION {[1..k -> SigParamTypes] : k \in 0..MaxSigArgs}

SigInit ==
    /\ javaVM = 0
    /\ pending = FALSE
    /\ className_ = ""
    /\ memberSignature_ = ""
    /\ pc = "idle"
    /\ last = NoOp
    /\ sigT \in SigReturnTypes
    /\ sigArgs \in SigParamLists
    /\ sigOut = NotDerived
    /\ sigAgain = NotDerived
    /\ sigField = NotDerived
    /\ jniObject = NoObject
    /\ conv = NoConv
    /\ thread = NoThreads

Derive ==
    /\ sigOut = NotDerived
    /\ sigOut' = getJNISignature(sigT, sigArgs)
    /\ UNCHANGED <<callVars, lifeVars, convVars, threadVars, sigT, sigArgs, sigAgain, sigField>>

DeriveAgain ==
    /\ sigAgain = NotDerived
    /\ sigAgain' = getJNISignature(sigT, sigArgs)
    /\ UNCHANGED <<callVars, lifeVars, convVars, threadVars, sigT, sigArgs, sigOut, sigField>>

DeriveField ==
    /\ sigField = NotDerived
    /\ sigField' = fieldSignature(sigT)
    /\ UNCHANGED <<callVars, lifeVars, convVars, threadVars, sigT, sigArgs, sigOut, sigAgain>>

SigNext ==
    \/ Derive
    \/ DeriveAgain
    \/ DeriveField

SigSpec == SigInit /\ [][SigNext]_vars

(***************************************************************************)
(* The life of one JNIObject on its own: a factory creates it from a       *)
(* handle of the caller (or from null), makeGlobalRef is called on it some *)
(* times, and its last owner releases it.  Tools::init has run.            *)
(***************************************************************************)
MaxMakeGlobal == 2  \* most makeGlobalRef calls made on the object

Factories == {"CreateGlobal", "CreateShared", "CreateWeak", "CreateLocal"}

\* the execution state of a step in the object's life: the references and
\* the log go on from the step before
LifeStart(attachErr) ==
    [Start([attachErr |-> attachErr, raises |-> FALSE, convRaise |-> 0,
            nullPend |-> FALSE, ubAbort |-> FALSE, order |-> "ltr",
            decode |-> "none"])
        EXCEPT !.refs = jniObject.refs, !.log = jniObject.log]

Factory(factory, st, obj) ==
    CASE factory = "CreateGlobal" -> CreateGlobal(st, obj)
      [] factory = "CreateShared" -> [st EXCEPT !.ret = CreateShared(obj)]
      [] factory = "CreateWeak"   -> [st EXCEPT !.ret = CreateWeak(obj)]
      [] factory = "CreateLocal"  -> CreateLocal(st, obj)

\* the global references among refs
Globals(refs) == {h \in 1..Len(refs) : refs[h].role = "global"}

LifeInit ==
    /\ javaVM \in VMs
    /\ pending = FALSE
    /\ className_ = ""
    /\ memberSignature_ = ""
    /\ pc = "idle"
    /\ last = NoOp
    /\ sigT = "void"
    /\ sigArgs = <<>>
    /\ sigOut = NotDerived
    /\ sigAgain = NotDerived
    /\ sigField = NotDerived
    /\ jniObject = NoObject
    /\ conv = NoConv
    /\ thread = NoThreads

LifeCreate ==
    /\ jniObject.phase = "none"
    /\ \E factory \in Factories, obj \in {NullH, InstanceH},
          attachErr \in BOOLEAN :
        LET s == Factory(factory, LifeStart(attachErr), obj)
        IN  jniObject' =
                [jniObject EXCEPT
                    !.phase = IF Halted(s) THEN "failed" ELSE "live",
                    !.proxy = IF Halted(s) THEN NoRet ELSE s.ret,
                    !.refs = s.refs, !.log = s.log,
                    \* CreateGlobal calls makeGlobalRef itself: of the
                    \* global references it makes, the first is its own
                    !.count = IF factory = "CreateGlobal"
                                 /\ Globals(s.refs) # {}
                              THEN Cardinality(Globals(s.refs)) - 1 ELSE 0,
                    !.factory = factory, !.obj = obj,
                    !.attachErr = attachErr]
    /\ UNCHANGED <<callVars, sigVars, convVars, threadVars>>

LifeMakeGlobalRef ==
    /\ jniObject.phase = "live"
    /\ jniObject.made < MaxMakeGlobal
    /\ \E attachErr \in BOOLEAN :
        LET s == makeGlobalRef(LifeStart(attachErr), jniObject.proxy)
        IN  jniObject' =
                [jniObject EXCEPT
                    !.proxy = IF Halted(s) THEN @ ELSE s.ret,
                    !.refs = s.refs, !.log = s.log,
                    !.count = @ + Cardinality(Globals(s.refs))
                                - Cardinality(Globals(jniObject.refs)),
                    !.made = @ + 1, !.attachErr = attachErr]
    /\ UNCHANGED <<callVars, sigVars, convVars, threadVars>>

\* the last owner releases the object: ~JNIObject runs
LifeDestroy ==
    /\ jniObject.phase = "live"
    /\ \E attachErr \in BOOLEAN :
        LET s == DestroyJNIObject(LifeStart(attachErr), jniObject.proxy)
        IN  jniObject' =
                [jniObject EXCEPT
                    !.phase = IF s.dead THEN "aborted" ELSE "destroyed",
                    !.refs = s.refs, !.log = s.log,
                    !.attachErr = attachErr]
    /\ UNCHANGED <<callVars, sigVars, convVars, threadVars>>

LifeNext ==
    \/ LifeCreate
    \/ LifeMakeGlobalRef
    \/ LifeDestroy

LifeSpec == LifeInit /\ [][LifeNext]_vars

(***************************************************************************)
(* The conversions by value.  A native string is the sequence of its       *)
(* characters, which may contain NUL; a managed string is the sequence of  *)
(* its characters; a byte is 0..255 natively (uint8_t) and -128..127 in    *)
(* the runtime (jbyte); a native map is a function on its keys.            *)
(***************************************************************************)
MaxStr == 2   \* longest native string
MaxSeq == 2   \* longest byte or string sequence, most entries of a map

Chars == {"a", "b", NUL}
Bytes == {0, 200}

SeqsUpTo(S, n) == UNION {[1..k -> S] : k \in 0..n}

\* std::string::c_str: the characters followed by the terminator
c_str(str) == str \o <<NUL>>

\* what reading a C string finds: the characters before the first NUL
RECURSIVE ReadCString(_)
ReadCString(chars) ==
    IF chars = <<>> \/ Head(chars) = NUL THEN <<>>
    ELSE <<Head(chars)>> \o ReadCString(Tail(chars))

\* env->NewStringUTF: the managed string with the characters of the C string
NewStringUTF(chars) == [kind |-> "String", chars |-> ReadCString(chars)]

\* env->GetStringUTFChars: modified UTF-8, in which the character U+0000
\* is the two bytes C0 80, followed by the terminator
RECURSIVE ModifiedUTF8(_)
ModifiedUTF8(chars) ==
    IF chars = <<>> THEN <<>>
    ELSE (IF Head(chars) = NUL THEN <<"C0", "80">> ELSE <<Head(chars)>>)
            \o ModifiedUTF8(Tail(chars))

GetStringUTFChars(jstr) == ModifiedUTF8(jstr.chars) \o <<NUL>>

\* Tools::toJString(env, const std::string&)
toJStringValue(str) == NewStringUTF(c_str(str))

\* Tools::toString by value: s = chars reads the C string
toStringValue(jstr) == ReadCString(GetStringUTFChars(jstr))

\* the casts (const jbyte *) &data[0] and (jbyte *) &result[0]
jbyte(b) == IF b >= 128 THEN b - 256 ELSE b
uint8(b) == (b + 256) % 256

\* Tools::toJObjectArray(env, const vector<uint8_t>&) by value
toJObjectArrayBytesValue(data) ==
    [kind |-> "byte[]", data |-> [i \in 1..Len(data) |-> jbyte(data[i])]]

\* Tools::toVectorByte by value
toVectorByteValue(array) ==
    [i \in 1..Len(array.data) |-> uint8(array.data[i])]

\* Tools::toJObjectArray(env, const vector<string>&) by value
toJObjectArrayStringsValue(data) ==
    [kind |-> "String[]",
     elems |-> [i \in 1..Len(data) |-> toJStringValue(data[i])]]

\* Tools::toVectorString by value
toVectorStringValue(array) ==
    [i \in 1..Len(array.elems) |-> toStringValue(array.elems[i])]

\* the order of std::map<std::string, ...>: NUL sorts before the letters
Rank(c) == CASE c = NUL -> 0 [] c = "a" -> 1 [] c = "b" -> 2

RECURSIVE Less(_, _)
Less(s, t) ==
    IF t = <<>> THEN FALSE
    ELSE IF s = <<>> THEN TRUE
    ELSE IF Head(s) # Head(t) THEN Rank(Head(s)) < Rank(Head(t))
    ELSE Less(Tail(s), Tail(t))

\* Tools::toHashMap by value: the entries are put in the order of the native
\* map, so of the native keys that make one managed key the greatest wins
toHashMapValue(data) ==
    LET keys == {toJStringValue(k).chars : k \in DOMAIN data}
        from(jk) == CHOOSE k \in DOMAIN data :
                        /\ toJStringValue(k).chars = jk
                        /\ \A k2 \in DOMAIN data :
                              toJStringValue(k2).chars = jk /\ k2 # k
                                  => Less(k2, k)
    IN  [kind |-> "HashMap",
         entries |-> [jk \in keys |-> toJStringValue(data[from(jk)]).chars]]

\* the native values the conversions are applied to
Values(T) ==
    CASE T = "string"    -> SeqsUpTo(Chars, MaxStr)
      [] T = "vecbyte"   -> SeqsUpTo(Bytes, MaxSeq)
      [] T = "vecstring" -> SeqsUpTo(SeqsUpTo(Chars, MaxStr), MaxSeq)
      [] T = "map"       ->
            UNION {[K -> SeqsUpTo(Chars, 1)] :
                      K \in {L \in SUBSET SeqsUpTo(Chars, 1) :
                                 Cardinality(L) <= MaxSeq}}

\* CPPToJNIConversor<T>::convert by value
Outbound(T, x) ==
    CASE T = "string"    -> toJStringValue(x)
      [] T = "vecbyte"   -> toJObjectArrayBytesValue(x)
      [] T = "vecstring" -> toJObjectArrayStringsValue(x)
      [] T = "map"       -> toHashMapValue(x)

\* the types JNIToCPPConversor<T> is specialised for
Inbounds == {"string", "vecbyte", "vecstring"}

\* JNIToCPPConversor<T>::convert by value
Inbound(T, j) ==
    CASE T = "string"    -> toStringValue(j)
      [] T = "vecbyte"   -> toVectorByteValue(j)
      [] T = "vecstring" -> toVectorStringValue(j)

\* &data[0] and &result[0] index an empty vector when the sequence is empty
IndexesEmptyVector(T, x) == T = "vecbyte" /\ x = <<>>

ConvInit ==
    /\ javaVM \in VMs
    /\ pending = FALSE
    /\ className_ = ""
    /\ memberSignature_ = ""
    /\ pc = "idle"
    /\ last = NoOp
    /\ sigT = "void"
    /\ sigArgs = <<>>
    /\ sigOut = NotDerived
    /\ sigAgain = NotDerived
    /\ sigField = NotDerived
    /\ jniObject = NoObject
    /\ conv = NoConv
    /\ thread = NoThreads

ConvOutbound ==
    /\ conv.stage = "none"
    /\ \E T \in {"string", "vecbyte", "vecstring", "map"} :
       \E x \in Values(T), ubAbort \in BOOLEAN :
            conv' = [NoConv EXCEPT
                        !.stage = "out", !.T = T, !.x = x,
                        !.j = Outbound(T, x),
                        !.dead = IndexesEmptyVector(T, x) /\ ubAbort]
    /\ UNCHANGED <<callVars, sigVars, lifeVars, threadVars>>

ConvInbound ==
    /\ conv.stage = "out"
    /\ ~conv.dead
    /\ conv.T \in Inbounds
    /\ \E ubAbort \in BOOLEAN :
            conv' = [conv EXCEPT
                        !.stage = "back",
                        !.y = Inbound(conv.T, conv.j),
                        !.dead = IndexesEmptyVector(conv.T, conv.x)
                                    /\ ubAbort]
    /\ UNCHANGED <<callVars, sigVars, lifeVars, threadVars>>

\* the conversions of Tools that take or make a handle
OutboundConversions == {"toJObjectArray(strings)", "toJObjectArray(bytes)",
                        "toHashMap"}
InboundConversions == {"toString", "toVectorString", "toVectorByte",
                       "toVectorFloat", "toVectorJObject"}

\* one conversion of Tools applied to handle h (inbound) or to a native
\* value of size elements (outbound)
ApplyConversion(fn, st, h, size, fails) ==
    CASE fn = "toJObjectArray(strings)" -> toJObjectArrayStrings(st, size, fails)
      [] fn = "toJObjectArray(bytes)"   -> toJObjectArrayBytes(st, fails)
      [] fn = "toHashMap"               -> toHashMap(st, size, fails)
      [] fn = "toString"                -> toString(st, h)
      [] fn = "toVectorString"          -> toVectorString(st, h)
      [] fn = "toVectorByte"            -> toVectorByte(st, h)
      [] fn = "toVectorFloat"           -> toVectorFloat(st, h)
      [] fn = "toVectorJObject"         -> toVectorJObject(st, h)

\* The state a conversion is entered in.  An inbound conversion is handed
\* what the managed call returned: a local reference, or null; a failure
\* may be pending (the managed call raised).
ConvStart(null, pend, ubAbort) ==
    LET st == [Start([Quiet EXCEPT !.ubAbort = ubAbort])
                  EXCEPT !.pend = pend]
    IN  IF null THEN st ELSE NewLocal(st, "result", "")

\* a conversion runs on its own: fails says that the runtime raises a
\* failure while an outbound conversion works
ConvCheck ==
    /\ conv.stage = "none"
    /\ \E fn \in OutboundConversions \cup InboundConversions,
          null \in BOOLEAN, pend \in BOOLEAN, fails \in BOOLEAN,
          size \in {0, MaxLen}, ubAbort \in BOOLEAN :
        /\ fn \in InboundConversions => ~fails /\ size = 0
        /\ fn \in OutboundConversions => null
        /\ ~(pend /\ fails)
        /\ ubAbort => fn = "toJObjectArray(bytes)" /\ fails
        /\ LET s == ApplyConversion(fn, ConvStart(null, pend, ubAbort),
                                    IF null THEN NullH ELSE 1, size, fails)
           IN  conv' = [NoConv EXCEPT
                           !.stage = "checked", !.fn = fn, !.null = null,
                           !.x = size,
                           !.pend = pend \/ fails,
                           !.outcome = IF s.dead THEN "aborted"
                                       ELSE IF s.exc # "none" THEN "threw"
                                       ELSE "returned",
                           !.log = s.log]
    /\ UNCHANGED <<callVars, sigVars, lifeVars, threadVars>>

ConvNext ==
    \/ ConvOutbound
    \/ ConvInbound
    \/ ConvCheck

ConvSpec == ConvInit /\ [][ConvNext]_vars

(***************************************************************************)
(* Two threads call method m of one proxy through JNIObject::Call, each    *)
(* after setting the overrides it selected (or none).  className_ and      *)
(* memberSignature_ are fields of the proxy, so both threads read and      *)
(* write the same two strings; nothing in the library orders the accesses. *)
(* Each thread has its own environment: its own references and call log.   *)
(***************************************************************************)
Threads == {1, 2}

RaceInit ==
    /\ javaVM \in VMs
    /\ pending = FALSE
    /\ className_ = ""
    /\ memberSignature_ = ""
    /\ pc = "idle"
    /\ last = NoOp
    /\ sigT = "void"
    /\ sigArgs = <<>>
    /\ sigOut = NotDerived
    /\ sigAgain = NotDerived
    /\ sigField = NotDerived
    /\ jniObject = NoObject
    /\ conv = NoConv
    /\ thread \in [Threads ->
                    {[pc |-> "setClassName", cls |-> c, sig |-> g,
                      st |-> Start(Quiet)] :
                        c \in {"", FooClass}, g \in {"", "(I)V"}}]

\* obj->SetClassName(cls), when the thread selected a class
ThreadSetClassName ==
    /\ \E t \in Threads :
        /\ thread[t].pc = "setClassName"
        /\ className_' = IF thread[t].cls # "" THEN thread[t].cls
                         ELSE className_
        /\ thread' = [thread EXCEPT ![t].pc = "setMemberSignature"]
    /\ UNCHANGED <<javaVM, pending, memberSignature_, pc, last, sigVars,
                   lifeVars, convVars>>

\* obj->SetMemberSignature(sig), when the thread selected a signature
ThreadSetMemberSignature ==
    /\ \E t \in Threads :
        /\ thread[t].pc = "setMemberSignature"
        /\ memberSignature_' = IF thread[t].sig # "" THEN thread[t].sig
                               ELSE memberSignature_
        /\ thread' = [thread EXCEPT ![t].pc = "resolve"]
    /\ UNCHANGED <<javaVM, pending, className_, pc, last, sigVars,
                   lifeVars, convVars>>

\* JNIObject::Call up to the class handle: attach, then className_ is read
ThreadResolve ==
    /\ \E t \in Threads :
        /\ thread[t].pc = "resolve"
        /\ thread' = [thread EXCEPT
                ![t].pc = "call",
                ![t].st = Bind(attachJniEnv(thread[t].st), LAMBDA s0 :
                            IF className_ = ""
                            THEN GetObjectClass(s0, InstanceH)
                            ELSE FindClass(s0, className_, "class"))]
    /\ UNCHANGED <<callVars, sigVars, lifeVars, convVars>>

\* safejni::Call<void>(instance, classId, "m", memberSignature_): the
\* signature is passed by reference and read inside
ThreadCall ==
    /\ \E t \in Threads :
        /\ thread[t].pc = "call"
        /\ thread' = [thread EXCEPT
                ![t].pc = "clear",
                ![t].st = Bind(thread[t].st, LAMBDA classId :
                            Call(classId, InstanceH, classId.v, "m",
                                 memberSignature_, "void", <<>>))]
    /\ UNCHANGED <<callVars, sigVars, lifeVars, convVars>>

\* ~NameAndSignatureClear at the end of JNIObject::Call
ThreadClear ==
    /\ \E t \in Threads :
        /\ thread[t].pc = "clear"
        /\ thread' = [thread EXCEPT ![t].pc = "done"]
    /\ className_' = ""
    /\ memberSignature_' = ""
    /\ UNCHANGED <<javaVM, pending, pc, last, sigVars, lifeVars, convVars>>

RaceNext ==
    \/ ThreadSetClassName
    \/ ThreadSetMemberSignature
    \/ ThreadResolve
    \/ ThreadCall
    \/ ThreadClear

RaceSpec == RaceInit /\ [][RaceNext]_vars

(***************************************************************************)
(* Calls whose managed target may raise, in a runtime that may also fail   *)
(* while the library decodes the pending failure.  After Tools::init; the  *)
(* class and the method exist, so nothing but the target and the decoding  *)
(* can go wrong.                                                           *)
(***************************************************************************)
DecodeFailures == {"none", "class", "getter", "call", "string"}

TeardownScenarios ==
    {[attachErr |-> FALSE, raises |-> r, convRaise |-> 0, nullPend |-> np,
      ubAbort |-> FALSE, order |-> "ltr", decode |-> d] :
        r \in BOOLEAN, np \in BOOLEAN, d \in DecodeFailures}

TeardownInit ==
    /\ javaVM \in VMs
    /\ pending = FALSE
    /\ className_ = ""
    /\ memberSignature_ = ""
    /\ pc = "idle"
    /\ last = NoOp
    /\ sigT = "void"
    /\ sigArgs = <<>>
    /\ sigOut = NotDerived
    /\ sigAgain = NotDerived
    /\ sigField = NotDerived
    /\ jniObject = NoObject
    /\ conv = NoConv
    /\ thread = NoThreads

TeardownCallStatic ==
    /\ pc = "idle"
    /\ ~pending
    /\ \E T \in RetTypes, args \in ArgLists, sc \in TeardownScenarios :
            Finish("CallStatic",
                   [cls |-> OwnClass, name |-> "m", sig |-> "(I)V",
                    T |-> T, args |-> args],
                   CallStatic(Start(sc), OwnClass, "m", "(I)V", T, args))

TeardownNext ==
    \/ TeardownCallStatic
    \/ Resume

TeardownSpec == TeardownInit /\ [][TeardownNext]_vars

(***************************************************************************)
(* Properties                                                              *)
(***************************************************************************)
\* the descriptor each supported type is documented to have
Descriptor(T) ==
    CASE T = "string"    -> "Ljava/lang/String;"
      [] T = "int32"     -> "I"
      [] T = "int64"     -> "J"
      [] T = "float"     -> "F"
      [] T = "double"    -> "D"
      [] T = "bool"      -> "Z"
      [] T = "int8"      -> "B"
      [] T = "int16"     -> "S"
      [] T = "void"      -> "V"
      [] T = "vecstring" -> "[Ljava/lang/String;"
      [] T = "vecbyte"   -> "[B"
      [] T = "map"       -> "Ljava/util/HashMap;"
      [] T = "proxy"     -> "Ljava/lang/Object;"

RECURSIVE Descriptors(_)
Descriptors(Ts) ==
    IF Ts = <<>> THEN "" ELSE Descriptor(Head(Ts)) \o Descriptors(Tail(Ts))

ExpectedSignature(T, Ts) == "(" \o Descriptors(Ts) \o ")" \o Descriptor(T)

\* C5: the derived method signature is "(" + the parameters' descriptors in
\* order + ")" + the return type's descriptor, with the documented descriptor
\* of each type; a second derivation for the same types gives the same
\* string; the field signature is the type's descriptor alone.
C5_DerivedSignature ==
    /\ sigOut # NotDerived => sigOut = ExpectedSignature(sigT, sigArgs)
    /\ sigOut # NotDerived /\ sigAgain # NotDerived => sigAgain = sigOut
    /\ sigField # NotDerived => sigField = Descriptor(sigT)

C5_Witness ==
    /\ sigOut # NotDerived /\ sigAgain # NotDerived /\ sigField # NotDerived
    /\ sigT = "vecstring"
    /\ sigArgs = <<"map", "int64">>

(***************************************************************************)
(* What the log of the last operation shows                                *)
(***************************************************************************)
InvocationOps == {"CallStatic", "Call", "ObjectCall"}
ConstructorOps == {"NewObject", "NewObjectByClass"}
FieldOps == {"Get", "Set", "GetStatic"}
ProxyOps == {"ObjectCall", "ObjectGet", "ObjectSet"}

\* control is back at the caller of the operation
Returned(ops) == pc = "returned" /\ last.op \in ops

\* Tools::init has stored the runtime reference: the operation ran without
\* undefined behaviour in attachJniEnv
Initialised == javaVM # 0

\* the class a class handle of the last operation refers to
LastObjOf(h) ==
    IF h = ClassH THEN OwnClass
    ELSE IF h \in 1..Len(last.refs) THEN last.refs[h].obj
    ELSE ""

\* the lookups of the member the operation was asked for
TargetLookups ==
    {i \in 1..Len(last.log) :
        /\ last.log[i].fn \in {"GetMethodID", "GetStaticMethodID",
                               "GetFieldID", "GetStaticFieldID"}
        /\ last.log[i].name = last.in.name
        /\ LastObjOf(last.log[i].h) # "java/util/HashMap"}

\* the signature the operation derives from its native types
LastDerived ==
    IF last.op \in {"Get", "Set", "GetStatic", "ObjectGet", "ObjectSet"}
    THEN fieldSignature(last.in.T)
    ELSE getJNISignature(last.in.T, Types(last.in.args))

\* the underlying call reached the managed target, which raised a failure
TargetRaised ==
    /\ last.sc.raises
    /\ \E i \in 1..Len(last.log) :
          /\ last.log[i].name = "result"
          /\ last.log[i].h # NullH
          /\ last.log[i].tok # NullH

FieldPrimitives ==
    {"Get" \o k \o Category(T) \o "Field" :
        k \in {"", "Static"}, T \in FieldTypes}
    \cup {"SetObjectField", "SetBooleanField"}

\* C1: when the managed target raises a failure during the underlying call
\* of CallStatic, Call or a proxy Call, the operation signals a native failure
\* instead of returning a value, for every return category.
C1_TargetFailureSignalled ==
    Initialised /\ Returned(InvocationOps) /\ TargetRaised
        => last.outcome = "threw"

\* C2: when a public operation hands control back to its caller, by return
\* or by a native failure, the runtime has no pending failure.
C2_NoPendingAfterOperation ==
    Initialised /\ pc = "returned" => ~pending

\* C3: every local handle created while converting the arguments of
\* CallStatic, Call, NewObject or Set (the argument handles, the per-element
\* handles, the handle of a conversion that fails) has been released exactly
\* once when the operation is over.
C3_ArgumentHandlesReleasedOnce ==
    Initialised /\ Returned({"CallStatic", "Call", "Set"} \cup ConstructorOps) =>
        \A h \in 1..Len(last.refs) :
            last.refs[h].role \in {"arg", "elem", "convclass"}
                => last.refs[h].rel = 1

\* C4: the member lookup of CallStatic, Call, NewObject, Get, Set and
\* GetStatic is handed the derived signature when the supplied one is empty,
\* and the supplied signature unchanged otherwise.
C4_SignatureHandedToLookup ==
    Initialised /\ Returned({"CallStatic", "Call"} \cup ConstructorOps \cup FieldOps) =>
        \A i \in TargetLookups :
            last.log[i].sig = IF last.in.sig = "" THEN LastDerived
                              ELSE last.in.sig

\* C6: after a proxy Call, Get or Set is over, by return or by any failure,
\* the proxy's override class name and override signature are empty.
C6_OverridesCleared ==
    Initialised /\ Returned(ProxyOps) => className_ = "" /\ memberSignature_ = ""

\* C7: a proxy Call, Get or Set resolves its member against the override
\* class when one was set, else against the object's own class, with the
\* override signature when one was set, else the derived one; and the
\* overrides are gone afterwards, so that the next operation made without
\* setting them uses the own class and the derived signature.
C7_OverridesApplyOnce ==
    Initialised /\ Returned(ProxyOps) =>
        /\ last.cn0 # MissingClass =>
              \A i \in TargetLookups :
                  /\ LastObjOf(last.log[i].h) =
                        (IF last.cn0 = "" THEN OwnClass ELSE last.cn0)
                  /\ last.log[i].sig =
                        (IF last.ms0 = "" THEN LastDerived ELSE last.ms0)
        /\ className_ = "" /\ memberSignature_ = ""

\* the operation looked up, by name, a class the runtime does not have
ClassLookupFailed ==
    /\ Returned({"CallStatic", "NewObject"})
    /\ last.in.cls \notin Classes
    /\ \E i \in 1..Len(last.log) :
          last.log[i].fn = "FindClass" /\ last.log[i].name = last.in.cls

\* C8 as stated: a class lookup that finds nothing signals ClassNotFound and
\* leaves no pending failure, whether or not the lookup set one.
C8_ClassNotFoundAlways ==
    Initialised /\ ClassLookupFailed =>
        last.outcome = "threw" /\ last.exc = "classNotFound" /\ ~pending

\* C8: a class lookup that finds nothing signals a native failure and leaves
\* no pending failure: ClassNotFound when no runtime failure is pending after
\* the lookup, and the decoded runtime failure when one is.
C8_ClassResolutionFailure ==
    ClassLookupFailed =>
        /\ last.outcome = "threw"
        /\ ~pending
        /\ last.exc = IF last.sc.nullPend \/ last.startPend THEN "runtime"
                      ELSE "classNotFound"

C8_Witness ==
    /\ Initialised
    /\ ClassLookupFailed
    /\ last.op = "CallStatic"
    /\ last.sc.nullPend
    /\ last.exc = "runtime"
    /\ ~pending

\* the operation looked up, in an existing class, a method the class does
\* not have
MethodLookupFailed ==
    /\ Returned(InvocationOps \cup ConstructorOps)
    /\ \E i \in TargetLookups :
          /\ last.log[i].h # NullH
          /\ ~MethodExists(LastObjOf(last.log[i].h), last.log[i].name,
                           last.log[i].sig)

\* C9 as stated: a method lookup that finds nothing in an existing class
\* signals MemberNotFound and leaves no pending failure, whether or not the
\* lookup set one.
C9_MemberNotFoundAlways ==
    Initialised /\ MethodLookupFailed =>
        last.outcome = "threw" /\ last.exc = "memberNotFound" /\ ~pending

\* C9: a method lookup that finds nothing in an existing class signals a
\* native failure and leaves no pending failure: MemberNotFound when the
\* lookup set no runtime failure, and the decoded runtime failure when it did.
C9_MemberResolutionFailure ==
    MethodLookupFailed =>
        /\ last.outcome = "threw"
        /\ ~pending
        /\ last.exc = IF last.sc.nullPend THEN "runtime"
                      ELSE "memberNotFound"

C9_Witness ==
    /\ Initialised
    /\ MethodLookupFailed
    /\ last.op = "Call"
    /\ last.in.name = "nosuch"
    /\ ~last.sc.nullPend
    /\ last.exc = "memberNotFound"
    /\ ~pending

\* C10: Get, Set and GetStatic signal a failure when the class or the field
\* does not exist, never issue a field primitive with a null class handle or
\* field token, and leave no pending failure.
C10_FieldLookupsChecked ==
    Initialised /\ last.op \in FieldOps =>
        /\ pc = "returned"
              /\ (last.in.cls \notin Classes \/ last.in.name = "nosuch")
              => last.outcome = "threw"
        /\ \A i \in 1..Len(last.log) :
              last.log[i].fn \in FieldPrimitives
                  => last.log[i].h # NullH /\ last.log[i].tok # NullH
        /\ pc = "returned" => ~pending

\* C11: every class handle obtained by resolving a class by name in
\* CallStatic and NewObject (the target's class, and the class looked up to
\* decode a failure) has been released exactly once when the operation is
\* over, by success or by failure; the class handle the caller supplies to
\* Call and NewObject(jclass) is never released.
C11_ClassHandlesReleasedOnce ==
    /\ Initialised /\ Returned({"CallStatic", "NewObject"}) =>
          \A h \in 1..Len(last.refs) :
              last.refs[h].role = "class" => last.refs[h].rel = 1
    /\ Initialised /\ Returned({"Call", "NewObjectByClass"}) =>
          \A i \in 1..Len(last.log) :
              last.log[i].fn = "DeleteLocalRef" => last.log[i].h # ClassH

\* an operation has run: every public operation starts with attachJniEnv
OperationOver == pc \in {"returned", "aborted"} /\ last.op # "none"

\* C12: attachJniEnv signals AttachFailure whenever the runtime reference
\* was never set by init or the attach reports an error; only with the
\* reference set and the attach successful does the operation get a context
\* to issue primitives with; and the attach is made on the reference the
\* most recent init stored.
C12_AttachFailureSignalled ==
    OperationOver =>
        /\ javaVM = 0 \/ last.sc.attachErr
              => last.outcome = "threw" /\ last.exc = "attach"
        /\ (\E i \in 1..Len(last.log) :
                last.log[i].fn # "AttachCurrentThread")
              => javaVM # 0 /\ ~last.sc.attachErr
        /\ \A i \in 1..Len(last.log) :
              last.log[i].fn = "AttachCurrentThread"
                  => last.log[i].tok = javaVM

\* how many times primitive fn was issued on handle h in the object's life
Issued(fn, h) ==
    Cardinality({i \in 1..Len(jniObject.log) :
                    jniObject.log[i].fn = fn /\ jniObject.log[i].h = h})

\* handle h is a global reference
IsGlobal(h) ==
    h \in 1..Len(jniObject.refs) /\ jniObject.refs[h].role = "global"

\* C13: when the object has been destroyed, the handle it held was released
\* exactly once, with DeleteGlobalRef when the object has Global ownership
\* (and the handle is a global reference) and with DeleteLocalRef when it
\* has Local ownership; a Weak object and an object holding the null handle
\* release nothing.
C13_HandleReleasedOnDestruction ==
    jniObject.phase = "destroyed" =>
        LET proxy == jniObject.proxy
        IN  IF proxy.weak \/ proxy.h = NullH
            THEN \A i \in 1..Len(jniObject.log) :
                    jniObject.log[i].fn
                        \notin {"DeleteGlobalRef", "DeleteLocalRef"}
            ELSE IF proxy.globalRef
            THEN /\ IsGlobal(proxy.h)
                 /\ Issued("DeleteGlobalRef", proxy.h) = 1
                 /\ Issued("DeleteLocalRef", proxy.h) = 0
            ELSE /\ ~IsGlobal(proxy.h)
                 /\ Issued("DeleteLocalRef", proxy.h) = 1
                 /\ Issued("DeleteGlobalRef", proxy.h) = 0

C13_Witness ==
    /\ jniObject.phase = "destroyed"
    /\ jniObject.factory = "CreateShared"
    /\ jniObject.made = 1
    /\ jniObject.proxy.globalRef
    /\ jniObject.proxy.h # NullH
    /\ Issued("DeleteGlobalRef", jniObject.proxy.h) = 1

\* C14: NewObject, by class name or by class handle, either returns a proxy
\* that holds a non-null handle with Global ownership or signals a failure;
\* when the managed constructor raises, the failure is signalled and no
\* proxy is returned.
C14_NewObjectProxyOrFailure ==
    Initialised /\ pc = "returned" /\ last.op \in ConstructorOps =>
        /\ last.outcome = "threw"
              \/ /\ last.outcome = "returned"
                 /\ last.ret.kind = "proxy"
                 /\ last.ret.h # NullH
                 /\ last.ret.globalRef
        /\ TargetRaised => last.outcome = "threw" /\ last.ret = NoRet

\* C15: a string, a byte sequence or a string sequence converted outbound
\* and converted back inbound is the value that was converted, the elements
\* of a sequence in their order; and a map has an inbound conversion.
C15_RoundTrip ==
    /\ conv.stage \in {"out", "back"} => ~conv.dead /\ conv.T \in Inbounds
    /\ conv.stage = "back" => conv.y = conv.x

\* the class name thread t's call looked up ("" when it took the class of
\* the object) and the signature it handed to the method lookup
LookedUpClass(t) ==
    LET log == thread[t].st.log
        I == {i \in 1..Len(log) : log[i].fn \in {"FindClass", "GetObjectClass"}}
    IN  IF I = {} THEN "none"
        ELSE log[CHOOSE i \in I : \A k \in I : i <= k].name

LookedUpSignature(t) ==
    LET log == thread[t].st.log
        I == {i \in 1..Len(log) : log[i].fn = "GetMethodID"}
    IN  IF I = {} THEN "none"
        ELSE log[CHOOSE i \in I : \A k \in I : i <= k].sig

\* C16: under every interleaving of two threads calling through one proxy,
\* each finished call has resolved the class its own thread selected (the
\* class of the object when it selected none) and the signature its own
\* thread selected (the derived one when it selected none).
C16_ThreadsIndependent ==
    \A t \in DOMAIN thread :
        thread[t].pc = "done" =>
            /\ LookedUpClass(t) = thread[t].cls
            /\ LookedUpSignature(t) =
                    MethodSig(thread[t].sig, "void", <<>>)

Logged == \E i \in 1..Len(last.log) : last.log[i].fn = "LOGE"

\* C17: the release of the transient handles at the end of a call never
\* signals a failure: the call does not end the process, no failure is
\* pending when it is over, and when the target raised and the call
\* returned, the failure was logged; also when decoding the failure fails.
C17_TeardownNeverSignals ==
    OperationOver =>
        /\ last.outcome # "aborted"
        /\ ~pending
        /\ TargetRaised /\ last.outcome = "returned" => Logged

\* C18: a conversion that is entered with a failure pending, or during
\* which the runtime raises one, does not return normally: it signals the
\* failure, whatever path it takes, the one for a null handle included.
C18_ConversionsCheckPending ==
    conv.stage = "checked" /\ conv.pend => conv.outcome # "returned"

\* the local references C19 speaks of: the class handle JNIObject::Call
\* obtains, the object a constructor, call or field read returned, and the
\* failure object taken while a pending failure is decoded
NonArgumentHandle(h) ==
    \/ last.refs[h].role = "class" /\ last.op = "ObjectCall"
    \/ last.refs[h].role \in {"result", "throwable"}

\* C19: when an operation is over (returned or signalled a failure), every
\* such handle is the handle wrapped in the returned proxy or was released.
C19_NonArgumentHandlesAccounted ==
    Initialised /\ pc = "returned" /\ last.op # "none" =>
        \A h \in 1..Len(last.refs) :
            NonArgumentHandle(h) =>
                \/ last.refs[h].rel >= 1
                \/ last.ret.kind = "proxy" /\ last.ret.h = h

\* positions in the log of the last operation: the steps of an invocation
AttachSteps == {i \in 1..Len(last.log) : last.log[i].fn = "AttachCurrentThread"}

ResolveSteps ==
    TargetLookups
        \cup {i \in 1..Len(last.log) : /\ last.log[i].fn = "FindClass"
                                       /\ last.log[i].name = last.in.cls}

\* the primitives with which the conversions make the handle of an argument
ConvertSteps ==
    {i \in 1..Len(last.log) :
        \/ last.log[i].fn \in {"NewStringUTF", "NewObjectArray", "NewByteArray"}
        \/ last.log[i].fn = "NewObject" /\ last.log[i].name = "arg"}

\* the underlying call
IssueSteps == {i \in 1..Len(last.log) : last.log[i].name = "result"}

\* the primitives of the inbound conversions, which read the result
ResultSteps ==
    {i \in 1..Len(last.log) :
        /\ last.log[i].fn \in {"GetStringUTFChars", "GetArrayLength"}
        /\ last.log[i].h \in 1..Len(last.refs)
        /\ last.refs[last.log[i].h].role = "result"}

ReleaseSteps(role) ==
    {i \in 1..Len(last.log) :
        /\ last.log[i].fn = "DeleteLocalRef"
        /\ last.log[i].h \in 1..Len(last.refs)
        /\ last.refs[last.log[i].h].role = role
        /\ role = "class" => last.refs[last.log[i].h].obj = last.in.cls}

Before(I, J) == \A i \in I, j \in J : i < j

\* the lookup of the class or of the member found nothing
ResolutionFailed ==
    \/ last.in.cls = MissingClass /\ last.op \in {"CallStatic", "NewObject"}
    \/ \E i \in TargetLookups :
          ~MethodExists(LastObjOf(last.log[i].h), last.log[i].name,
                        last.log[i].sig)

\* the runtime raised a failure while an argument was converted
ConversionFailed == last.sc.convRaise > 0 /\ ConvertSteps # {}

\* C20: CallStatic, Call and NewObject attach, resolve, convert the
\* arguments, issue the call, convert the result, release the transient
\* handles and release the owned class handle, in this order; when the
\* resolution fails no argument is converted and no call is issued, and
\* when an argument conversion fails no call is issued.
C20_StepsInOrder ==
    Initialised /\ Returned({"CallStatic", "Call"} \cup ConstructorOps) =>
        /\ last.log # <<>> => 1 \in AttachSteps
        /\ Before(ResolveSteps, ConvertSteps \cup IssueSteps)
        /\ Before(ConvertSteps, IssueSteps)
        /\ Before(IssueSteps, ResultSteps)
        /\ Before(ConvertSteps \cup IssueSteps \cup ResultSteps,
                  ReleaseSteps("arg"))
        /\ Before(ReleaseSteps("arg"), ReleaseSteps("class"))
        /\ ResolutionFailed => ConvertSteps = {} /\ IssueSteps = {}
        /\ ConversionFailed => IssueSteps = {}

\* C21: when a proxy made by any factory has been destroyed, after any
\* number of makeGlobalRef calls, every reference the library created with
\* NewGlobalRef or NewLocalRef was deleted exactly once, as many global
\* references were deleted as were created, and makeGlobalRef created at
\* most one global reference.
C21_CreatedReferencesDeletedOnce ==
    jniObject.phase = "destroyed" =>
        /\ \A h \in 1..Len(jniObject.refs) : jniObject.refs[h].rel = 1
        /\ Cardinality(Globals(jniObject.refs)) =
              Cardinality({i \in 1..Len(jniObject.log) :
                              jniObject.log[i].fn = "DeleteGlobalRef"})
        /\ jniObject.count <= 1

====
